---- MODULE Spec2Model ----
(***************************************************************************)
(* State-machine model of the atomic financial advisor pipeline            *)
(* (src/atomic_financial_agent): the orchestrator's run over the five      *)
(* agents, the SQLite store as seen through the shared connection, the     *)
(* retry loop of StrategyAgent and the pure function safe_json_parse.      *)
(***************************************************************************)
EXTENDS Integers, Sequences, FiniteSets, TLC

\* ------------------------------------------------------------------------
\* Bounds of the model
\* ------------------------------------------------------------------------
MaxTextLen == 5      \* longest raw text enumerated for safe_json_parse
MaxRawLen == 1       \* longest raw text the service returns inside a run
MaxRows == 1         \* most rows (dates) the collector returns
MaxRuns == 2         \* runs of the orchestrator against the same advisor.db
MaxTickers == 2      \* longest context["tickers"]
MaxSeriesLen == 17   \* longest price series over TwoPrices
MaxTurns == 3        \* most changes of price in a series over TwoPrices
MaxShortLen == 4     \* longest price series over FourPrices
MaxWarmLen == 51     \* longest of the patterned price series

\* ------------------------------------------------------------------------
\* Program constants
\* ------------------------------------------------------------------------
MaxAttempts == 3     \* for attempt in range(3)
RetryDelay == 5      \* time.sleep(5)
SmaShort == 20       \* rolling(20).mean()
SmaLong == 50        \* rolling(50).mean()
VolWindow == 20      \* pct_change().rolling(20).std()
RsiPeriod == 14      \* def rsi(self, series, period=14)

Symbols == {"AAPL", "MSFT"}

\* ------------------------------------------------------------------------
\* Raw text.  A text is a sequence of tokens: a lone brace, a stretch of
\* brace-free text that is not JSON, or the whole text of a JSON object
\* (from its "{" to its "}").
\* ------------------------------------------------------------------------
LB == "{"
RB == "}"
Objects == {"full", "part", "badconf", "offspec"}
Tokens == {LB, RB, "noise"} \cup Objects

Fields == {"short_term", "long_term", "confidence", "reason"}

\* Values a decoded "confidence" member can have.  kind "num": a JSON number
\* (milli = the number in thousandths); kind "str": a JSON string that is
\* not the text of a number.
Num(m) == [kind |-> "num", milli |-> m]
NonNumericStr == [kind |-> "str", milli |-> 0]

\* A decoded JSON object: keys is the set of members it has; a member that
\* is absent holds the placeholder of its column.
Obj(ks, st, lt, cf, rs) ==
    [keys |-> ks, short_term |-> st, long_term |-> lt, confidence |-> cf, reason |-> rs]

EmptyObj == Obj({}, "", "", Num(0), "")

\* What each object token denotes.
\*   full    {"short_term":"Buy","long_term":"Hold","confidence":0.8,"reason":"x"}
\*   part    {"short_term":"Buy"}
\*   badconf {"short_term":"Sell","long_term":"Hold","confidence":"high","reason":"y"}
\*   offspec {"short_term":"StrongBuy","long_term":"Hold","confidence":1.5,"reason":"z"}
ObjectOf(b) ==
    CASE b = "full" -> Obj(Fields, "Buy", "Hold", Num(800), "x")
      [] b = "part" -> Obj({"short_term"}, "Buy", "", Num(0), "")
      [] b = "badconf" -> Obj(Fields, "Sell", "Hold", NonNumericStr, "y")
      [] b = "offspec" -> Obj(Fields, "StrongBuy", "Hold", Num(1500), "z")

\* The value raw_text holds when the envelope's "response" member is not a
\* string (null, a number): re.search raises TypeError on it.
NullText == <<"null">>

SeqsUpTo(S, n) == UNION {[1..k -> S] : k \in 0..n}

Texts(n) == SeqsUpTo(Tokens, n)

\* The fixed fallback of safe_json_parse.
Fallback == Obj(Fields, "Hold", "Hold", Num(0), "LLM output parsing failed")

\* Tokens that begin with "{" and tokens that end with "}".
Opens(tok) == tok = LB \/ tok \in Objects

Closes(tok) == tok = RB \/ tok \in Objects

\* re.search(r"\{.*\}", text, re.DOTALL): the leftmost "{" that has a "}"
\* after it, extended greedily to the last "}".  <<>> when there is no match.
MatchFrom(text) ==
    LET opens == {i \in 1..Len(text) :
                    /\ Opens(text[i])
                    /\ \/ text[i] \in Objects
                       \/ \E j \in (i+1)..Len(text) : Closes(text[j])}
    IN IF opens = {} THEN 0 ELSE CHOOSE i \in opens : \A k \in opens : i <= k

MatchTo(text) ==
    LET closes == {j \in 1..Len(text) : Closes(text[j])}
    IN IF closes = {} THEN 0 ELSE CHOOSE j \in closes : \A k \in closes : k <= j

re_search(text) ==
    IF MatchFrom(text) = 0 THEN <<>> ELSE SubSeq(text, MatchFrom(text), MatchTo(text))

\* json.loads on a text that starts with "{" and ends with "}": it decodes
\* when the text is "{" "}" or the text of one object.
Decodes(s) ==
    \/ Len(s) = 2 /\ s[1] = LB /\ s[2] = RB
    \/ Len(s) = 1 /\ s[1] \in Objects

json_loads(s) == IF Len(s) = 2 THEN EmptyObj ELSE ObjectOf(s[1])

\* non-greedy variant of the match: up to the first "}" after the "{"
safe_json_parse_lazy(text) ==
    LET from == MatchFrom(text)
        to == IF from = 0 THEN 0
              ELSE IF text[from] \in Objects THEN from
              ELSE CHOOSE j \in (from+1)..Len(text) :
                     Closes(text[j]) /\ \A k \in (from+1)..(j-1) : ~Closes(text[k])
        m == IF from = 0 THEN <<>> ELSE SubSeq(text, from, to)
    IN IF text = NullText \/ m = <<>> \/ ~Decodes(m) THEN Fallback ELSE json_loads(m)

\* safe_json_parse: every exception (TypeError of re.search, ValueError for
\* no match, JSONDecodeError) ends in the fallback; a decoded object is
\* returned as it is.
safe_json_parse(text) ==
    IF text = NullText THEN Fallback
    ELSE IF re_search(text) = <<>> THEN Fallback
    ELSE IF ~Decodes(re_search(text)) THEN Fallback
    ELSE json_loads(re_search(text))

\* ------------------------------------------------------------------------
\* The store: advisor.db as a function from table name to <<>> (no such
\* table) or <<content>>.
\* ------------------------------------------------------------------------
TableNames == {"market_data", "technical_analysis", "risk_analysis", "report"}

EmptyStore == [t \in TableNames |-> <<>>]

\* The agents in the order of self.agents.
StageOrder == <<"MarketData", "TechnicalAnalysis", "RiskAnalysis", "Strategy", "Report">>

\* a loop that skips the agent after the first one
StageAfterSkipping(s) ==
    CASE s = "MarketData" -> "RiskAnalysis"
      [] s = "TechnicalAnalysis" -> "RiskAnalysis"
      [] s = "RiskAnalysis" -> "Strategy"
      [] s = "Strategy" -> "Report"
      [] s = "Report" -> "Commit"

\* for agent in self.agents: the agent after s, or the commit after the last.
StageAfter(s) ==
    CASE s = "MarketData" -> "TechnicalAnalysis"
      [] s = "TechnicalAnalysis" -> "RiskAnalysis"
      [] s = "RiskAnalysis" -> "Strategy"
      [] s = "Strategy" -> "Report"
      [] s = "Report" -> "Commit"

\* context["tickers"]: a non-empty list of distinct symbols (main.py passes
\* four).
TickerLists ==
    {t \in SeqsUpTo(Symbols, MaxTickers) :
        Len(t) >= 1 /\ \A i, j \in 1..Len(t) : i # j => t[i] # t[j]}

\* Faults of the store during one agent: none, an operation that raises
\* before the agent changed anything, or the INSERT that raises after the
\* table was dropped and created again.
StoreFaults == {"none", "before", "insert"}

\* Column names.  Date and the indicator columns belong to no symbol.
Col(f, s) == [field |-> f, sym |-> s]

IndicatorCols == <<Col("SMA_20", ""), Col("SMA_50", ""), Col("RSI", ""),
                   Col("Volatility", ""), Col("Ticker", "")>>

\* Columns of pd.concat(out): the columns of the first frame, then the
\* columns of the later frames that are new (their Close column).
RECURSIVE ConcatCols(_)
ConcatCols(ts) ==
    IF Len(ts) = 0 THEN <<>>
    ELSE IF Len(ts) = 1 THEN <<Col("Date", ""), Col("Close", ts[1])>> \o IndicatorCols
    ELSE ConcatCols(SubSeq(ts, 1, Len(ts) - 1)) \o <<Col("Close", ts[Len(ts)])>>

\* What column col holds in a row of ticker in the table of pd.concat(out):
\* a Close column holds prices in the rows of its own symbol only and is
\* missing in the rows of the others.
PriceCell(col, ticker) == [col |-> col, missing |-> col # Col("Close", ticker)]

\* DataFrame.to_sql(name, conn, if_exists="replace") on a sqlite3
\* connection: DROP TABLE and CREATE TABLE run outside a transaction and
\* are durable at once; pandas commits after the CREATE and after the
\* INSERT.  The result is both the connection's view and the durable store.
EmptyOf(content) == [content EXCEPT !.rows = 0]

ToSql(c, name, content, fault) ==
    CASE fault = "none" -> [c EXCEPT ![name] = <<content>>]
      [] fault = "before" -> c
      [] fault = "insert" -> [c EXCEPT ![name] = <<EmptyOf(content)>>]

\* f"{float(s['confidence']):.2f}": float() accepts a number and raises on a
\* string that is not a number; the value is rendered in hundredths.
FloatOk(cf) == cf.kind = "num"

Format2f(cf) == (cf.milli + 5) \div 10

\* One block of the report: the lookups s['short_term'], s['long_term'],
\* s['confidence'], s['reason'] raise KeyError on an absent member.
Renders(s) == Fields \subseteq s.keys /\ FloatOk(s.confidence)

Block(e) ==
    [ticker |-> e.ticker, short_term |-> e.rec.short_term, long_term |-> e.rec.long_term,
     confidence |-> Format2f(e.rec.confidence), reason |-> e.rec.reason]

\* ------------------------------------------------------------------------
\* Indicator columns.  A column is a sequence of cells; a cell is missing
\* (NaN), infinite, or the fraction n/d with d > 0.
\* ------------------------------------------------------------------------
NaN == [k |-> "nan", n |-> 0, d |-> 1]

Inf == [k |-> "inf", n |-> 0, d |-> 1]

Val(a, b) == [k |-> "num", n |-> a, d |-> b]

\* The Close column of a symbol with no missing price.
CloseCol(s) == [i \in 1..Len(s) |-> Val(s[i], 1)]

\* a difference that takes the first record as unchanged
diff_zero_first(col) ==
    [i \in 1..Len(col) |->
        IF i = 1 THEN Val(0, 1)
        ELSE LET c == col[i]
                 b == col[i-1]
             IN IF c.k # "num" \/ b.k # "num" THEN NaN ELSE Val(c.n - b.n, 1)]

\* series.diff(): missing at the first record.
diff(col) ==
    [i \in 1..Len(col) |->
        IF i = 1 THEN NaN
        ELSE LET c == col[i]
                 b == col[i-1]
             IN IF c.k # "num" \/ b.k # "num" THEN NaN ELSE Val(c.n - b.n, 1)]

\* delta.clip(lower=0) and -delta.clip(upper=0); a missing cell stays missing.
clip_lower0(col) ==
    [i \in 1..Len(col) |->
        LET c == col[i] IN IF c.k # "num" \/ c.n >= 0 THEN c ELSE Val(0, 1)]

neg_clip_upper0(col) ==
    [i \in 1..Len(col) |->
        LET c == col[i]
        IN IF c.k # "num" THEN c
           ELSE IF c.n <= 0 THEN Val(0 - c.n, 1) ELSE Val(0, 1)]

\* a percentage change that takes the first record as unchanged
pct_change_zero_first(col) ==
    [i \in 1..Len(col) |->
        IF i = 1 THEN Val(0, 1)
        ELSE LET c == col[i]
                 b == col[i-1]
             IN IF c.k # "num" \/ b.k # "num" THEN NaN ELSE Val(c.n - b.n, b.n)]

\* series.pct_change(): missing at the first record.
pct_change(col) ==
    [i \in 1..Len(col) |->
        IF i = 1 THEN NaN
        ELSE LET c == col[i]
                 b == col[i-1]
             IN IF c.k # "num" \/ b.k # "num" THEN NaN ELSE Val(c.n - b.n, b.n)]

\* .rolling(w): the window ending at record i has w observations (the
\* default min_periods is the window size; a missing cell is no observation).
WindowFull(col, i, w) ==
    /\ i >= w
    /\ \A j \in (i - w + 1)..i : col[j].k = "num"

RECURSIVE SumCells(_, _, _)
SumCells(col, from, to) ==
    IF from > to THEN 0 ELSE col[from].n + SumCells(col, from + 1, to)

\* .rolling(w).mean() of a column of whole numbers.
rolling_mean(col, w) ==
    [i \in 1..Len(col) |->
        IF WindowFull(col, i, w) THEN Val(SumCells(col, i - w + 1, i), w) ELSE NaN]

\* .rolling(w).std(): which cells are present.
rolling_std_present(col, w) == [i \in 1..Len(col) |-> WindowFull(col, i, w)]

\* a division that turns x/0 into 0
Divide0(a, b) ==
    IF a.k # "num" \/ b.k # "num" THEN NaN
    ELSE IF b.n = 0 THEN Val(0, 1)
    ELSE Val(a.n * b.d, a.d * b.n)

\* Floating-point division of a cell by a cell that is not negative: 0/0
\* is missing, x/0 is infinite for x > 0.
Divide(a, b) ==
    IF a.k # "num" \/ b.k # "num" THEN NaN
    ELSE IF b.n = 0 THEN (IF a.n = 0 THEN NaN ELSE Inf)
    ELSE Val(a.n * b.d, a.d * b.n)

\* 100 - (100 / (1 + rs)) for rs that is not negative.
RsiOf(rs) ==
    IF rs.k = "nan" THEN NaN
    ELSE IF rs.k = "inf" THEN Val(100, 1)
    ELSE Val(100 * (rs.n + rs.d) - 100 * rs.d, rs.n + rs.d)

\* TechnicalAnalysisAgent.rsi
rsi(col, period) ==
    LET delta == diff(col)
        gain == rolling_mean(clip_lower0(delta), period)
        loss == rolling_mean(neg_clip_upper0(delta), period)
    IN [i \in 1..Len(col) |-> LET rs == Divide(gain[i], loss[i]) IN RsiOf(rs)]

\* The indicator columns of one symbol in TechnicalAnalysisAgent.execute.
TechnicalColumns(s) ==
    [SMA_20 |-> rolling_mean(CloseCol(s), SmaShort),
     SMA_50 |-> rolling_mean(CloseCol(s), SmaLong),
     RSI |-> rsi(CloseCol(s), RsiPeriod),
     Volatility |-> rolling_std_present(pct_change(CloseCol(s)), VolWindow)]

\* The highest of a non-empty set of prices.
MaxOf(ps) == CHOOSE m \in ps : \A x \in ps : x <= m

\* the highest price of the whole series
cummax_whole(s) == [i \in 1..Len(s) |-> MaxOf({s[j] : j \in 1..Len(s)})]

\* price.cummax(): the highest price up to each record.
cummax(s) == [i \in 1..Len(s) |-> MaxOf({s[j] : j \in 1..i})]

\* a <= b for two fractions
FracLeq(a, b) == a.n * b.d <= b.n * a.d

\* .min() of a non-empty set of fractions.
MinOf(cells) == CHOOSE m \in cells : \A x \in cells : FracLeq(m, x)

\* (price / price.cummax() - 1).min() of a series of positive prices;
\* missing for the empty series.
max_drawdown(s) ==
    LET top == cummax(s)
    IN IF Len(s) = 0 THEN NaN
       ELSE MinOf({Val(s[i] - top[i], top[i]) : i \in 1..Len(s)})

\* Price series the indicators are computed for: the series over two price
\* levels with few changes of price, every short series over four levels,
\* and longer series that alternate or stay flat.
TwoPrices == {1, 2}

FourPrices == {10, 11, 12, 13}

Alternating(len) == [i \in 1..len |-> 1 + (i % 2)]

Flat(len) == [i \in 1..len |-> 1]

Turns(s) == Cardinality({i \in 2..Len(s) : s[i] # s[i-1]})

PriceSeries ==
    {s \in SeqsUpTo(TwoPrices, MaxSeriesLen) : Turns(s) <= MaxTurns}
    \cup SeqsUpTo(FourPrices, MaxShortLen)
    \cup {Alternating(len) : len \in 0..MaxWarmLen} \cup {Flat(len) : len \in 0..MaxWarmLen}

\* ------------------------------------------------------------------------
\* State
\* ------------------------------------------------------------------------
VARIABLES
    text,        \* argument of the safe_json_parse call under study
    parsed,      \* <<>> before the call, <<result>> after it
    prices,      \* price series of the symbol under study
    techCols,    \* <<>>, or <<its indicator columns>>
    drawdown,    \* <<>>, or <<its Max_Drawdown>>
    pc,          \* position of orchestrator.run
    runs,        \* runs started so far
    tickers,     \* context["tickers"]
    ctx,         \* the rest of the context: strategies, run_id, report
    db,          \* advisor.db, durable contents
    conn,        \* contents as seen through conn (with uncommitted changes)
    inTxn,       \* conn has an open transaction
    dbAtStart,   \* db when the current run connected
    executed,    \* agents whose execute has been called in this run
    raisedAt,    \* 0, or the position in the run at which the exception rose
    error,       \* cause of the exception: none, collector, store, recommendation
    phase,       \* position inside StrategyAgent.execute
    strategies,  \* local strategies of StrategyAgent.execute, in insertion order
    run_id,      \* local run_id of StrategyAgent.execute
    idx,         \* index of the ticker of the loop
    attempt,     \* requests made for the ticker of the loop
    slept,       \* time slept for the ticker of the loop
    log,         \* per finished ticker: whether a request succeeded
    idsGenerated, \* uuid4 calls so far
    prompts,     \* per prompt built in this run: its ticker and its Price
    calls        \* <<>>, or <<requests.post calls of this run>> where counted

parseVars == <<text, parsed>>

indVars == <<prices, techCols, drawdown>>

pureVars == <<parseVars, indVars>>

storeVars == <<db, conn, inTxn>>

strategyVars == <<phase, strategies, run_id, idx, attempt, slept, log, idsGenerated,
                  prompts, calls>>

runVars == <<pc, runs, tickers, ctx, dbAtStart, executed, raisedAt, error>>

vars == <<parseVars, indVars, storeVars, strategyVars, runVars>>

NoContext == [strategies |-> <<>>, run_id |-> 0, report |-> <<>>]

\* The state of the pipeline before run is called.
Idle ==
    /\ pc = "Init"
    /\ runs = 1
    /\ ctx = NoContext
    /\ conn = db
    /\ inTxn = FALSE
    /\ dbAtStart = db
    /\ executed = <<>>
    /\ raisedAt = 0
    /\ error = "none"
    /\ phase = "begin"
    /\ strategies = <<>>
    /\ run_id = 0
    /\ idx = 1
    /\ attempt = 0
    /\ slept = 0
    /\ log = <<>>
    /\ idsGenerated = 0
    /\ prompts = <<>>

\* ------------------------------------------------------------------------
\* safe_json_parse applied to every text up to MaxTextLen
\* ------------------------------------------------------------------------
\* No indicator computation under study.
NoIndicators ==
    /\ prices = <<>>
    /\ techCols = <<>>
    /\ drawdown = <<>>

InitParse ==
    /\ text \in Texts(MaxTextLen) \cup {NullText}
    /\ parsed = <<>>
    /\ NoIndicators
    /\ tickers = <<"AAPL">>
    /\ db = EmptyStore
    /\ calls = <<>>
    /\ Idle

ParseCall ==
    /\ parsed = <<>>
    /\ parsed' = <<safe_json_parse(text)>>
    /\ UNCHANGED <<text, indVars, storeVars, strategyVars, runVars>>

NextParse == ParseCall

SpecParse == InitParse /\ [][NextParse]_vars

\* ------------------------------------------------------------------------
\* The indicators applied to every price series of PriceSeries
\* ------------------------------------------------------------------------
InitIndicators ==
    /\ prices \in PriceSeries
    /\ techCols = <<>>
    /\ drawdown = <<>>
    /\ text = <<>>
    /\ parsed = <<>>
    /\ tickers = <<"AAPL">>
    /\ db = EmptyStore
    /\ calls = <<>>
    /\ Idle

\* The loop body of TechnicalAnalysisAgent.execute for the symbol.
TechnicalCompute ==
    /\ techCols = <<>>
    /\ techCols' = <<TechnicalColumns(prices)>>
    /\ UNCHANGED <<prices, drawdown, parseVars, storeVars, strategyVars, runVars>>

\* Max_Drawdown of RiskAnalysisAgent.execute for the symbol; the risk stage
\* follows the technical stage.
RiskCompute ==
    /\ techCols # <<>>
    /\ drawdown = <<>>
    /\ drawdown' = <<max_drawdown(prices)>>
    /\ UNCHANGED <<prices, techCols, parseVars, storeVars, strategyVars, runVars>>

NextIndicators == TechnicalCompute \/ RiskCompute

SpecIndicators == InitIndicators /\ [][NextIndicators]_vars

\* ------------------------------------------------------------------------
\* The pipeline: FinancialAdvisorOrchestrator.run and the five agents
\* ------------------------------------------------------------------------
Range(f) == {f[i] : i \in DOMAIN f}

Init ==
    /\ text = <<>>
    /\ parsed = <<>>
    /\ NoIndicators
    /\ tickers \in TickerLists
    /\ db = EmptyStore
    /\ calls = <<>>
    /\ Idle

\* except Exception: conn.rollback().  at is the position that raised (1..5
\* an agent, 6 the commit), d the durable store at that moment.
Raise(cause, at, d) ==
    /\ pc' = "RolledBack"
    /\ db' = d
    /\ conn' = d
    /\ inTxn' = FALSE
    /\ error' = cause
    /\ raisedAt' = at

\* an agent returned: the loop goes on to the next one
Proceed(stage, d) ==
    /\ pc' = StageAfter(stage)
    /\ db' = d
    /\ conn' = d
    /\ inTxn' = FALSE
    /\ UNCHANGED <<error, raisedAt>>

\* conn = sqlite3.connect("advisor.db")
Connect ==
    /\ pc = "Init"
    /\ pc' = "MarketData"
    /\ conn' = db
    /\ inTxn' = FALSE
    /\ dbAtStart' = db
    /\ UNCHANGED <<db, pureVars, strategyVars, runs, tickers, ctx, executed, raisedAt, error>>

\* What yf.download can do: raise, or return a table of 0..MaxRows dates
\* whose columns are the Close_<ticker> columns ("ok") or not ("flat").
CollectorResults ==
    {[kind |-> "raise", rows |-> 0, shape |-> "ok"]} \cup
    {[kind |-> "table", rows |-> n, shape |-> sh] : n \in 0..MaxRows, sh \in {"ok", "flat"}}

MarketDataExecute ==
    /\ pc = "MarketData"
    /\ executed' = Append(executed, "MarketData")
    /\ \E res \in CollectorResults, fault \in StoreFaults :
         LET content == [rows |-> res.rows,
                         closeCols |-> IF res.shape = "ok" THEN Range(tickers) ELSE {},
                         gen |-> runs]
         IN IF res.kind = "raise" THEN Raise("collector", 1, db)
            ELSE IF fault # "none"
                 THEN Raise("store", 1, ToSql(conn, "market_data", content, fault))
                 ELSE Proceed("MarketData", ToSql(conn, "market_data", content, fault))
    /\ UNCHANGED <<pureVars, strategyVars, runs, tickers, ctx, dbAtStart>>

TechnicalAnalysisExecute ==
    /\ pc = "TechnicalAnalysis"
    /\ executed' = Append(executed, "TechnicalAnalysis")
    /\ \E fault \in StoreFaults :
         LET m == conn["market_data"]
             content == [rows |-> m[1].rows, tickers |-> tickers,
                         cols |-> ConcatCols(tickers), gen |-> runs]
         IN IF fault = "before" \/ m = <<>> THEN Raise("store", 2, db)
            ELSE IF ~(Range(tickers) \subseteq m[1].closeCols) THEN Raise("collector", 2, db)
            ELSE IF fault # "none"
                 THEN Raise("store", 2, ToSql(conn, "technical_analysis", content, fault))
                 ELSE Proceed("TechnicalAnalysis", ToSql(conn, "technical_analysis", content, fault))
    /\ UNCHANGED <<pureVars, strategyVars, runs, tickers, ctx, dbAtStart>>

RiskAnalysisExecute ==
    /\ pc = "RiskAnalysis"
    /\ executed' = Append(executed, "RiskAnalysis")
    /\ \E fault \in StoreFaults :
         LET t == conn["technical_analysis"]
             content == [rows |-> Len(tickers), tickers |-> tickers,
                         priceCol |-> t[1].cols[2],
                         basis |-> [i \in 1..Len(tickers) |->
                                       PriceCell(t[1].cols[2], tickers[i])],
                         gen |-> runs]
         IN IF fault = "before" \/ t = <<>> THEN Raise("store", 3, db)
            ELSE IF fault # "none"
                 THEN Raise("store", 3, ToSql(conn, "risk_analysis", content, fault))
                 ELSE Proceed("RiskAnalysis", ToSql(conn, "risk_analysis", content, fault))
    /\ UNCHANGED <<pureVars, strategyVars, runs, tickers, ctx, dbAtStart>>

\* The count of requests.post calls, kept only in the behaviours that
\* start counting.
Counted(c, n) == IF c = <<>> THEN <<>> ELSE <<n>>

\* StrategyAgent.execute up to the loop: the two reads and uuid.uuid4().
StrategyBegin ==
    /\ pc = "Strategy"
    /\ phase = "begin"
    /\ executed' = Append(executed, "Strategy")
    /\ \E fault \in {"none", "before"} :
         IF fault = "before" \/ conn["technical_analysis"] = <<>> \/ conn["risk_analysis"] = <<>>
         THEN /\ Raise("store", 4, db)
              /\ UNCHANGED strategyVars
         ELSE /\ phase' = "lookup"
              /\ strategies' = <<>>
              /\ run_id' = idsGenerated + 1
              /\ idsGenerated' = idsGenerated + 1
              /\ idx' = 1
              /\ attempt' = 0
              /\ slept' = 0
              /\ log' = <<>>
              /\ prompts' = <<>>
              /\ calls' = Counted(calls, 0)
              /\ UNCHANGED <<pc, storeVars, error, raisedAt>>
    /\ UNCHANGED <<pureVars, runs, tickers, ctx, dbAtStart>>

\* a lookup that finds a row in any table
RowsForAny(table, ticker) == 1

\* Rows of a table that carry the ticker.
RowsFor(table, ticker) ==
    IF ticker \in Range(table.tickers) THEN table.rows ELSE 0

\* The prompt of a ticker: Price is t.iloc[1], the second column of the
\* ticker's last row of technical_analysis.
PromptOf(table, ticker) == [ticker |-> ticker, price |-> PriceCell(table.cols[2], ticker)]

\* Head of the loop over context["tickers"]: the lookups .iloc[-1] and
\* .iloc[0] raise IndexError on no rows; after the last ticker the results
\* go into the context and execute returns.
StrategyLookup ==
    /\ pc = "Strategy"
    /\ phase = "lookup"
    /\ IF idx > Len(tickers)
       THEN /\ ctx' = [ctx EXCEPT !.strategies = <<strategies>>, !.run_id = run_id]
            /\ phase' = "begin"
            /\ attempt' = 0
            /\ slept' = 0
            /\ Proceed("Strategy", db)
            /\ UNCHANGED <<strategies, run_id, idx, log, idsGenerated, prompts, calls>>
       ELSE IF \/ RowsFor(conn["technical_analysis"][1], tickers[idx]) = 0
               \/ RowsFor(conn["risk_analysis"][1], tickers[idx]) = 0
       THEN /\ Raise("collector", 4, db)
            /\ UNCHANGED <<ctx, strategyVars>>
       ELSE /\ phase' = "call"
            /\ attempt' = 0
            /\ slept' = 0
            /\ prompts' = Append(prompts, PromptOf(conn["technical_analysis"][1], tickers[idx]))
            /\ UNCHANGED <<ctx, pc, storeVars, error, raisedAt>>
            /\ UNCHANGED <<strategies, run_id, idx, log, idsGenerated, calls>>
    /\ UNCHANGED <<pureVars, runs, tickers, dbAtStart, executed>>

\* What one requests.post(...) followed by response.json().get("response", "")
\* can do.  The failing kinds raise inside the try block; the others leave a
\* raw_text.
FailingKinds == {"unreachable", "timeout", "bad_envelope"}

ServiceReplies ==
    {[kind |-> k, raw |-> <<>>] : k \in FailingKinds \cup {"no_field"}} \cup
    {[kind |-> "null_field", raw |-> NullText]} \cup
    {[kind |-> "text", raw |-> r] : r \in Texts(MaxRawLen)}

Entry(ticker, rec) == [ticker |-> ticker, rec |-> rec]

LogEntry(ticker, ok) == [ticker |-> ticker, success |-> ok]

\* a retry loop that makes one more attempt
AttemptsLeftOneMore(n) == n < MaxAttempts + 1

\* for attempt in range(3): another attempt follows n failed ones
AttemptsLeft(n) == n < MaxAttempts

\* a fallback that reuses the previous ticker's entry
GiveUpStale(ticker) ==
    IF strategies = <<>> THEN Entry(ticker, safe_json_parse(<<>>))
    ELSE Entry(ticker, strategies[Len(strategies)].rec)

\* if not success: strategies[ticker] = safe_json_parse("")
GiveUp(ticker) == Entry(ticker, safe_json_parse(<<>>))

\* a loop over the tickers that stays on its ticker
NextTickerStuck(i) == i

\* for ticker in context["tickers"]: the loop goes on to the next ticker.
NextTicker(i) == i + 1

\* One attempt of the retry loop, with what follows it when the loop ends:
\* the fallback entry after the last failed attempt, the parsed entry after
\* an attempt that succeeded.
StrategyAttempt ==
    /\ pc = "Strategy"
    /\ phase = "call"
    /\ \E reply \in ServiceReplies :
         IF reply.kind \in FailingKinds
         THEN /\ slept' = slept + RetryDelay
              /\ IF AttemptsLeft(attempt + 1)
                 THEN /\ attempt' = attempt + 1
                      /\ UNCHANGED <<phase, strategies, idx, log>>
                 ELSE /\ strategies' = Append(strategies, GiveUp(tickers[idx]))
                      /\ log' = Append(log, LogEntry(tickers[idx], FALSE))
                      /\ attempt' = attempt + 1
                      /\ idx' = NextTicker(idx)
                      /\ phase' = "lookup"
         ELSE /\ strategies' = Append(strategies,
                                      Entry(tickers[idx], safe_json_parse(reply.raw)))
              /\ log' = Append(log, LogEntry(tickers[idx], TRUE))
              /\ attempt' = attempt + 1
              /\ idx' = NextTicker(idx)
              /\ phase' = "lookup"
              /\ UNCHANGED slept
    /\ calls' = IF calls = <<>> THEN calls ELSE Counted(calls, calls[1] + 1)
    /\ UNCHANGED <<run_id, idsGenerated, prompts>>
    /\ UNCHANGED <<pureVars, storeVars, runVars>>

\* a report that draws an identifier of its own for the header
RenderReportOwnId(c, now) ==
    [run_id |-> idsGenerated + 1, generated |-> now,
     blocks |-> [i \in 1..Len(c.strategies[1]) |-> Block(c.strategies[1][i])]]

\* The report text: header and one block per item of context["strategies"].
RenderReport(c, now) ==
    [run_id |-> c.run_id, generated |-> now,
     blocks |-> [i \in 1..Len(c.strategies[1]) |-> Block(c.strategies[1][i])]]

\* an INSERT that is not preceded by the DELETE
ReportRowsKept(r) ==
    LET old == IF conn["report"] = <<>> THEN <<>> ELSE conn["report"][1].texts
    IN [rows |-> Len(old) + 1, texts |-> Append(old, r)]

\* DELETE FROM report, then INSERT of the one row.
ReportRows(r) == [rows |-> 1, texts |-> <<r>>]

\* CREATE TABLE IF NOT EXISTS report runs outside a transaction and is
\* durable at once.
CreateReport(d) ==
    IF d["report"] = <<>> THEN [d EXCEPT !["report"] = <<[rows |-> 0, texts |-> <<>>]>>] ELSE d

\* ReportAgent.execute: rendering raises on an entry that lacks a member or
\* whose confidence float() rejects; then CREATE, DELETE and INSERT (the
\* last two open a transaction), and context["report"].
ReportExecute ==
    /\ pc = "Report"
    /\ executed' = Append(executed, "Report")
    /\ \E fault \in StoreFaults :
         LET report == RenderReport(ctx, runs)
         IN IF \E i \in 1..Len(ctx.strategies[1]) : ~Renders(ctx.strategies[1][i].rec)
            THEN /\ Raise("recommendation", 5, db)
                 /\ UNCHANGED ctx
            ELSE IF fault = "before"
            THEN /\ Raise("store", 5, db)
                 /\ UNCHANGED ctx
            ELSE IF fault = "insert"
            THEN /\ Raise("store", 5, CreateReport(db))
                 /\ UNCHANGED ctx
            ELSE /\ pc' = StageAfter("Report")
                 /\ db' = CreateReport(db)
                 /\ conn' = [CreateReport(db) EXCEPT !["report"] = <<ReportRows(report)>>]
                 /\ inTxn' = TRUE
                 /\ ctx' = [ctx EXCEPT !.report = <<report>>]
                 /\ UNCHANGED <<error, raisedAt>>
    /\ UNCHANGED <<pureVars, strategyVars, runs, tickers, dbAtStart>>

\* conn.commit(), which can raise; the except clause then rolls back.
CommitStep ==
    /\ pc = "Commit"
    /\ \/ /\ pc' = "Committed"
          /\ db' = conn
          /\ inTxn' = FALSE
          /\ UNCHANGED <<conn, error, raisedAt>>
       \/ Raise("store", 6, db)
    /\ UNCHANGED <<pureVars, strategyVars, runs, tickers, ctx, dbAtStart, executed>>

\* The program is started again: main.py builds a new context with the same
\* ticker list, against the same advisor.db.
NewRun ==
    /\ pc \in {"Committed", "RolledBack"}
    /\ runs < MaxRuns
    /\ pc' = "Init"
    /\ runs' = runs + 1
    /\ ctx' = NoContext
    /\ conn' = db
    /\ dbAtStart' = db
    /\ executed' = <<>>
    /\ raisedAt' = 0
    /\ error' = "none"
    /\ phase' = "begin"
    /\ strategies' = <<>>
    /\ run_id' = 0
    /\ idx' = 1
    /\ attempt' = 0
    /\ slept' = 0
    /\ log' = <<>>
    /\ prompts' = <<>>
    /\ calls' = Counted(calls, 0)
    /\ UNCHANGED <<pureVars, tickers, db, inTxn, idsGenerated>>

Next ==
    \/ Connect
    \/ MarketDataExecute
    \/ TechnicalAnalysisExecute
    \/ RiskAnalysisExecute
    \/ StrategyBegin
    \/ StrategyLookup
    \/ StrategyAttempt
    \/ ReportExecute
    \/ CommitStep
    \/ NewRun

Spec == Init /\ [][Next]_vars

\* ------------------------------------------------------------------------
\* One run under fairness: every external call (download, store operation,
\* service request with its timeout, sleep) returns or raises, so a step of
\* the run that can be taken is eventually taken.  The requests are counted.
\* ------------------------------------------------------------------------
InitFair ==
    /\ text = <<>>
    /\ parsed = <<>>
    /\ NoIndicators
    /\ tickers \in TickerLists
    /\ db = EmptyStore
    /\ calls = <<0>>
    /\ Idle

NextFair ==
    \/ Connect
    \/ MarketDataExecute
    \/ TechnicalAnalysisExecute
    \/ RiskAnalysisExecute
    \/ StrategyBegin
    \/ StrategyLookup
    \/ StrategyAttempt
    \/ ReportExecute
    \/ CommitStep

SpecFair == InitFair /\ [][NextFair]_vars /\ WF_vars(NextFair)

\* ------------------------------------------------------------------------
\* Properties
\* ------------------------------------------------------------------------
Terminal == {"Committed", "RolledBack"}

\* C1: rollback atomicity.  When a run ends rolled back, advisor.db holds
\* exactly what it held when the run connected, and until the final commit
\* no table write of the run is durable.
C1_RollbackAtomicity == pc # "Committed" => db = dbAtStart

\* C2: containment of recommendation failures.  Whatever the service does,
\* a run is rolled back only because of a collector failure or a store
\* failure.
C2_OnlyCollectorOrStoreAborts == pc = "RolledBack" => error \in {"collector", "store"}

\* C3: stage ordering.  The agents of a run execute in the order of
\* StageOrder, each at most once; after a raise no further agent executes;
\* a run that committed executed all five and none raised; the position of
\* the run only moves forward, and a finished run stays Committed or
\* RolledBack until the program is started again.
Rank(p) ==
    CASE p = "Init" -> 0
      [] p = "MarketData" -> 1
      [] p = "TechnicalAnalysis" -> 2
      [] p = "RiskAnalysis" -> 3
      [] p = "Strategy" -> 4
      [] p = "Report" -> 5
      [] p = "Commit" -> 6
      [] p \in Terminal -> 7

C3_Order ==
    /\ executed = SubSeq(StageOrder, 1, Len(executed))
    /\ raisedAt \in 1..5 => pc = "RolledBack" /\ Len(executed) = raisedAt
    /\ pc = "RolledBack" <=> raisedAt # 0
    /\ pc = "Committed" => executed = StageOrder
    /\ pc \in {"MarketData", "TechnicalAnalysis", "RiskAnalysis", "Report", "Commit"}
         => Len(executed) = Rank(pc) - 1
    /\ pc = "Strategy" => Len(executed) = IF phase = "begin" THEN 3 ELSE 4

C3_Forward ==
    pc' # pc => \/ Rank(pc') > Rank(pc)
                \/ pc \in Terminal /\ pc' = "Init" /\ runs' = runs + 1

C3_StageOrdering == [](C3_Order) /\ [][C3_Forward]_vars

C3_Witness == pc = "RolledBack" /\ raisedAt = 3 /\ Len(executed) = 3 /\ runs = 2

\* C4: success post-condition.  A run that committed raised nowhere, and
\* after it market_data, technical_analysis, risk_analysis and report are
\* all present in advisor.db with at least one row each.
C4_SuccessTables ==
    pc = "Committed" =>
        /\ raisedAt = 0
        /\ error = "none"
        /\ \A t \in TableNames : db[t] # <<>> /\ db[t][1].rows > 0

C4_Witness ==
    /\ pc = "Committed"
    /\ Len(tickers) = 2
    /\ db["report"][1].texts = ctx.report

\* C5: bounded retry with fallback.  No ticker gets more than MaxAttempts
\* requests; a request that returns is the last one for its ticker; a
\* ticker whose MaxAttempts requests all failed gets exactly the fixed
\* fallback, nothing is raised, and the loop goes on to the next ticker.
C5_Bounded ==
    /\ attempt <= MaxAttempts
    /\ phase = "call" => attempt < MaxAttempts
    /\ Len(log) = Len(strategies)
    /\ \A i \in 1..Len(log) :
         ~log[i].success =>
            /\ strategies[i] = Entry(tickers[i], Fallback)
            /\ log[i].ticker = tickers[i]

C5_Step ==
    /\ attempt' > attempt /\ slept' = slept
         => phase' = "lookup" /\ idx' = idx + 1 /\ log' = Append(log, LogEntry(tickers[idx], TRUE))
    /\ Len(log') > Len(log) /\ ~log'[Len(log')].success
         => /\ attempt' = MaxAttempts
            /\ pc' = "Strategy" /\ phase' = "lookup" /\ idx' = idx + 1
            /\ error' = "none"

C5_BoundedRetry == [](C5_Bounded) /\ [][C5_Step]_vars

C5_Witness ==
    /\ pc = "Report"
    /\ Len(log) = 2
    /\ ~log[1].success
    /\ log[2].success
    /\ strategies[1].rec = Fallback
    /\ strategies[2].rec = ObjectOf("full")

\* C6: defensive parse rejects incomplete objects.  When the extracted
\* {...} substring decodes to an object that lacks a required field,
\* safe_json_parse returns the fixed fallback.
C6_IncompleteRejected ==
    (/\ parsed # <<>>
     /\ re_search(text) # <<>>
     /\ Decodes(re_search(text))
     /\ ~(Fields \subseteq json_loads(re_search(text)).keys))
    => parsed[1] = Fallback

\* C7: confidence coercion.  No recommendation is stored with a confidence
\* that float() rejects (the fallback is stored in its place), and no run is
\* rolled back by the report stage because of one.
Coercible(rec) == "confidence" \in rec.keys => rec.confidence.kind = "num"

C7_ConfidenceCoerced ==
    /\ \A i \in 1..Len(strategies) : Coercible(strategies[i].rec)
    /\ ~(/\ pc = "RolledBack"
          /\ raisedAt = 5
          /\ \E i \in 1..Len(strategies) :
                Fields \subseteq strategies[i].rec.keys /\ ~FloatOk(strategies[i].rec.confidence))

\* C8: recommendation invariant.  Once the Strategy stage has completed,
\* every entry of context["strategies"] has short_term and long_term among
\* Buy, Sell, Hold and a numeric confidence between 0.0 and 1.0.
Calls == {"Buy", "Sell", "Hold"}

WellFormed(rec) ==
    /\ Fields \subseteq rec.keys
    /\ rec.short_term \in Calls
    /\ rec.long_term \in Calls
    /\ rec.confidence.kind = "num"
    /\ rec.confidence.milli \in 0..1000

C8_RecommendationInvariant ==
    ctx.strategies # <<>> =>
        \A i \in 1..Len(ctx.strategies[1]) : WellFormed(ctx.strategies[1][i].rec)

\* C9: parse extraction and totality.
\* Occurrences in t of the text of a JSON object with the four fields.
CompleteObjects == {b \in Objects : Fields \subseteq ObjectOf(b).keys}

Occurrences(t) == {i \in 1..Len(t) : t[i] \in CompleteObjects}

HasOpen(t, a, b) == \E k \in a..b : t[k] = LB \/ t[k] \in Objects

HasClose(t, a, b) == \E k \in a..b : t[k] = RB \/ t[k] \in Objects

\* an opening brace with a closing brace after it
HasBracePair(t) ==
    \E i \in 1..Len(t) : t[i] \in Objects \/ (t[i] = LB /\ HasClose(t, i + 1, Len(t)))

\* from the first opening brace to the last closing brace
Outer(t) ==
    LET i == CHOOSE a \in 1..Len(t) : HasOpen(t, a, a) /\ ~HasOpen(t, 1, a - 1)
        j == CHOOSE b \in 1..Len(t) : HasClose(t, b, b) /\ ~HasClose(t, b + 1, Len(t))
    IN SubSeq(t, i, j)

C9_Total ==
    parsed # <<>> =>
        /\ Len(parsed) = 1
        /\ ~HasBracePair(text) => parsed[1] = Fallback
        /\ HasBracePair(text) /\ ~Decodes(Outer(text)) => parsed[1] = Fallback

\* C9 as stated: for every text prefix + J + suffix, with J the text of a
\* JSON object with the four fields and any prefix and suffix,
\* safe_json_parse returns the object J denotes; and safe_json_parse always
\* returns, the fallback when there is no "{"..."}" or when the substring
\* from the first "{" to the last "}" does not decode.
C9_ExtractsAnyNoise ==
    /\ C9_Total
    /\ parsed # <<>> => \A i \in Occurrences(text) : parsed[1] = ObjectOf(text[i])

\* C9 as amended: the same for every prefix that contains no "{" and every
\* suffix that contains no "}".
C9_ExtractsBraceFreeNoise ==
    /\ C9_Total
    /\ parsed # <<>> =>
         \A i \in Occurrences(text) :
            ~HasOpen(text, 1, i - 1) /\ ~HasClose(text, i + 1, Len(text))
               => parsed[1] = ObjectOf(text[i])

C9_Witness ==
    /\ text = <<"noise", RB, "full", LB, "noise">>
    /\ parsed = <<ObjectOf("full")>>

\* C10: degraded-but-complete report.  After a run that committed,
\* context["strategies"] has one entry per ticker and the report one block
\* per ticker, both in ticker order; the block of a ticker whose requests
\* all failed shows Hold, Hold, 0.00 and the fallback reason; the block of
\* every other ticker shows the entry stored for it, and an entry, once
\* stored, is not changed by what happens to a later ticker.
FallbackBlock(ticker) ==
    [ticker |-> ticker, short_term |-> "Hold", long_term |-> "Hold",
     confidence |-> 0, reason |-> "LLM output parsing failed"]

C10_Complete ==
    pc = "Committed" =>
        /\ ctx.report # <<>>
        /\ ctx.strategies # <<>>
        /\ Len(ctx.strategies[1]) = Len(tickers)
        /\ Len(ctx.report[1].blocks) = Len(tickers)
        /\ Len(log) = Len(tickers)
        /\ \A i \in 1..Len(tickers) :
             LET b == ctx.report[1].blocks[i]
                 e == ctx.strategies[1][i]
             IN /\ e.ticker = tickers[i]
                /\ b.ticker = tickers[i]
                /\ ~log[i].success => b = FallbackBlock(tickers[i])
                /\ log[i].success =>
                     /\ b.short_term = e.rec.short_term
                     /\ b.long_term = e.rec.long_term
                     /\ b.reason = e.rec.reason
                     /\ b.confidence * 10 \in (e.rec.confidence.milli - 5)..(e.rec.confidence.milli + 4)

C10_Keeps ==
    pc = "Strategy" /\ pc' \in {"Strategy", "Report"} /\ strategies # <<>>
        => /\ Len(strategies') >= Len(strategies)
           /\ SubSeq(strategies', 1, Len(strategies)) = strategies
           /\ pc' = "Report" => ctx'.strategies = <<strategies>>

C10_DegradedReport == [](C10_Complete) /\ [][C10_Keeps]_vars

C10_Witness ==
    /\ pc = "Committed"
    /\ Len(log) = 2
    /\ log[1].success
    /\ ~log[2].success
    /\ ctx.report[1].blocks[1].short_term = "Buy"
    /\ ctx.report[1].blocks[1].confidence = 80
    /\ ctx.report[1].blocks[2] = FallbackBlock(tickers[2])

\* ------------------------------------------------------------------------
\* Indicator claims (SpecIndicators)
\* ------------------------------------------------------------------------
PresentCount(col) == Cardinality({i \in 1..Len(col) : col[i].k = "num"})

TrueCount(col) == Cardinality({i \in 1..Len(col) : col[i]})

WarmCount(len, missing) == IF len <= missing THEN 0 ELSE len - missing

\* C11 as stated: for a price series of length n with no missing price,
\* SMA_20 and Volatility are entirely missing when n < 20 and each has
\* exactly n - 19 present values when n >= 20.
C11_WarmUp ==
    techCols # <<>> =>
        /\ PresentCount(techCols[1].SMA_20) = WarmCount(Len(prices), 19)
        /\ TrueCount(techCols[1].Volatility) = WarmCount(Len(prices), 19)

\* C11 amended: SMA_20 is entirely missing when n < 20 and has exactly
\* n - 19 present values when n >= 20; Volatility, a 20-window over the
\* percentage changes whose first value is missing, is entirely missing
\* when n <= 20 and has exactly n - 20 present values when n >= 21.
C11_WarmUpOfChanges ==
    techCols # <<>> =>
        /\ PresentCount(techCols[1].SMA_20) = WarmCount(Len(prices), 19)
        /\ TrueCount(techCols[1].Volatility) = WarmCount(Len(prices), 20)

C11_Witness ==
    /\ techCols # <<>>
    /\ Len(prices) = 21
    /\ PresentCount(techCols[1].SMA_20) = 2
    /\ TrueCount(techCols[1].Volatility) = 1

\* Sum of the rises (up = TRUE) or of the falls of the period price changes
\* that end at record i.
Moved(i, up) ==
    LET step(j) == IF up THEN prices[j] - prices[j-1] ELSE prices[j-1] - prices[j]
        RECURSIVE total(_)
        total(j) == IF j > i THEN 0
                    ELSE (IF step(j) > 0 THEN step(j) ELSE 0) + total(j + 1)
    IN total(IF i - RsiPeriod + 1 < 2 THEN 2 ELSE i - RsiPeriod + 1)

\* C12: wherever RSI is defined it lies in [0, 100]; where the trailing
\* window has no fall and some rise it is exactly 100, an ordinary value and
\* no error; where the window has neither rise nor fall it is missing.
C12_RsiRange ==
    techCols # <<>> =>
        \A i \in 1..Len(prices) :
            LET r == techCols[1].RSI[i]
            IN /\ r.k \in {"nan", "num"}
               /\ r.k = "num" => r.d > 0 /\ 0 <= r.n /\ r.n <= 100 * r.d
               /\ i > RsiPeriod /\ Moved(i, FALSE) = 0 /\ Moved(i, TRUE) > 0
                     => r.k = "num" /\ r.n = 100 * r.d
               /\ i > RsiPeriod /\ Moved(i, FALSE) = 0 /\ Moved(i, TRUE) = 0
                     => r.k = "nan"

C12_Witness ==
    /\ techCols # <<>>
    /\ \E i \in 1..Len(prices) :
          /\ i > RsiPeriod
          /\ Moved(i, FALSE) = 0
          /\ Moved(i, TRUE) > 0
          /\ techCols[1].RSI[i] = Val(100, 1)

NonDecreasing(s) == \A i \in 2..Len(s) : s[i-1] <= s[i]

\* C13: for every non-empty series of positive prices Max_Drawdown is a
\* number <= 0 (and above -1), and it is exactly 0 when the series never
\* falls, as for [10, 11, 12, 13].
C13_DrawdownSign ==
    (drawdown # <<>> /\ prices # <<>>) =>
        /\ drawdown[1].k = "num"
        /\ drawdown[1].d > 0
        /\ drawdown[1].n <= 0
        /\ drawdown[1].n > 0 - drawdown[1].d
        /\ NonDecreasing(prices) => drawdown[1].n = 0
        /\ \E i \in 1..Len(prices) : \E j \in 1..i :
              prices[i] * drawdown[1].d = (drawdown[1].n + drawdown[1].d) * prices[j]

C13_Witness ==
    /\ prices = <<10, 11, 12, 13>>
    /\ drawdown # <<>>
    /\ drawdown[1].k = "num"
    /\ drawdown[1].n = 0

\* Some price change in the period changes that end at record i.
Moves(i) == Moved(i, TRUE) > 0 \/ Moved(i, FALSE) > 0

\* C17 as stated: SMA_50 is missing for exactly the first 49 records; RSI is
\* missing for lack of history for exactly the first 13 records, the 14th
\* record already having a full window, so that from the 14th record on RSI
\* is present whenever its window has some rise or fall.
C17_WarmUpRecords ==
    techCols # <<>> =>
        \A i \in 1..Len(prices) :
            /\ techCols[1].SMA_50[i].k = "nan" <=> i <= 49
            /\ i <= 13 => techCols[1].RSI[i].k = "nan"
            /\ i >= 14 /\ Moves(i) => techCols[1].RSI[i].k = "num"

\* C17 amended: SMA_50 is missing for exactly the first 49 records; RSI is
\* missing for lack of history for exactly the first 14 records, the 15th
\* record being the first with a full window of 14 price changes, and from
\* the 15th record on RSI is missing exactly where its window has neither
\* rise nor fall.
C17_WarmUpOfChanges ==
    techCols # <<>> =>
        \A i \in 1..Len(prices) :
            /\ techCols[1].SMA_50[i].k = "nan" <=> i <= 49
            /\ i <= 14 => techCols[1].RSI[i].k = "nan"
            /\ i >= 15 => (techCols[1].RSI[i].k = "nan" <=> ~Moves(i))

C17_Witness ==
    /\ techCols # <<>>
    /\ Len(prices) >= 50
    /\ techCols[1].SMA_50[49].k = "nan"
    /\ techCols[1].SMA_50[50].k = "num"
    /\ Moves(14)
    /\ techCols[1].RSI[14].k = "nan"
    /\ techCols[1].RSI[15].k = "num"

\* ------------------------------------------------------------------------
\* Pipeline claims (Spec, SpecFair)
\* ------------------------------------------------------------------------
ReportTexts(d) == IF d["report"] = <<>> THEN <<>> ELSE d["report"][1].texts

\* C14: report table.  After any sequence of runs the report table holds at
\* most one row, durably and as the connection sees it; after every run that
\* committed it holds exactly one row, whose text is the report text in that
\* run's context.
C14_SingleReportRow ==
    /\ \A d \in {db, conn} :
          /\ Len(ReportTexts(d)) <= 1
          /\ d["report"] # <<>> => d["report"][1].rows = Len(ReportTexts(d))
    /\ pc = "Committed" =>
          /\ Len(ctx.report) = 1
          /\ ReportTexts(db) = ctx.report

C14_Witness ==
    /\ pc = "Committed"
    /\ runs = 2
    /\ Len(ReportTexts(dbAtStart)) = 1
    /\ ReportTexts(db) = ctx.report
    /\ ReportTexts(db) # ReportTexts(dbAtStart)

\* The price of a symbol's own Close series.
OwnPrice(ticker) == [col |-> Col("Close", ticker), missing |-> FALSE]

\* C15: per-symbol inputs.  For every symbol of the ticker list, the second
\* and later ones included, the risk record is computed from that symbol's
\* own close series and the Price of its prompt is its own latest close,
\* never another symbol's column and never an all-missing column.
C15_OwnSeries ==
    /\ conn["risk_analysis"] # <<>> =>
          \A i \in 1..Len(conn["risk_analysis"][1].tickers) :
             conn["risk_analysis"][1].basis[i] = OwnPrice(conn["risk_analysis"][1].tickers[i])
    /\ \A i \in 1..Len(prompts) : prompts[i].price = OwnPrice(prompts[i].ticker)

\* C16: retry delay.  The delay of RetryDelay occurs only between two
\* consecutive attempts of a symbol: while another attempt is to come every
\* failed attempt so far was followed by one delay, and once the symbol is
\* finished, by a success or by MaxAttempts failures, the delays are one
\* fewer than the attempts (two for three failed attempts).
C16_DelayBetweenAttempts ==
    pc = "Strategy" =>
        /\ phase = "call" => slept = RetryDelay * attempt
        /\ phase = "lookup" /\ log # <<>> => slept = RetryDelay * (attempt - 1)

\* C18: termination.  Every external call returning or raising, a started
\* run eventually is Committed or RolledBack, and the Strategy stage makes
\* at most MaxAttempts requests per symbol of the ticker list.
C18_CallsBounded == calls # <<>> /\ calls[1] <= MaxAttempts * Len(tickers)

C18_Termination ==
    /\ [](C18_CallsBounded)
    /\ (pc \notin Terminal \cup {"Init"}) ~> (pc \in Terminal)

C18_Witness ==
    /\ pc = "Committed"
    /\ Len(tickers) = 2
    /\ calls = <<MaxAttempts * 2>>

\* C19: run identifier.  A run draws at most one identifier, and exactly one
\* once its Strategy stage passed its reads, whatever the number of symbols;
\* it is written to the context once, when Strategy completes, and the
\* Run ID of the report header is the identifier in the context.
C19_OneId ==
    /\ idsGenerated <= runs
    /\ run_id # 0 => run_id = idsGenerated
    /\ pc = "Strategy" /\ phase # "begin" => run_id # 0 /\ ctx.run_id = 0
    /\ pc \in {"Report", "Commit", "Committed"} => run_id # 0 /\ ctx.run_id = run_id
    /\ ctx.run_id # 0 => ctx.run_id = run_id
    /\ ctx.report # <<>> => ctx.report[1].run_id = ctx.run_id /\ ctx.run_id # 0

C19_Step ==
    /\ idsGenerated' # idsGenerated =>
          /\ idsGenerated' = idsGenerated + 1
          /\ pc = "Strategy" /\ run_id = 0 /\ run_id' = idsGenerated'
    /\ run_id' # run_id =>
          \/ idsGenerated' # idsGenerated
          \/ pc \in Terminal /\ runs' = runs + 1 /\ run_id' = 0
    /\ ctx'.run_id # ctx.run_id =>
          \/ pc = "Strategy" /\ pc' = "Report" /\ ctx.run_id = 0 /\ ctx'.run_id = run_id
          \/ pc \in Terminal /\ runs' = runs + 1 /\ ctx'.run_id = 0

C19_SingleRunId == [](C19_OneId) /\ [][C19_Step]_vars

C19_Witness ==
    /\ pc = "Committed"
    /\ runs = 2
    /\ Len(tickers) = 2
    /\ idsGenerated = 2
    /\ ctx.run_id = 2
    /\ ctx.report[1].run_id = 2

\* C20: report availability.  From a context with no report, when run has
\* returned the context holds a report text exactly if the run ended
\* Committed; a run that ended RolledBack, because a stage raised or because
\* the final commit raised, leaves no report text in the context.
C20_ReportIffCommitted ==
    pc \in Terminal => (ctx.report # <<>> <=> pc = "Committed")

====
